---- MODULE Spec2Model ----
(***************************************************************************)
(* A model of the retrieval and ingestion core of the Jarvis assistant:    *)
(*   - DatabaseService.search_similar_documents and _fallback_search      *)
(*     (services/database_service.py), the three-tier similarity search;   *)
(*   - EmbeddingService.generate_embeddings_batch                          *)
(*     (services/embedding_service.py) against the MemoryOptimizer object  *)
(*     of utils/memory_optimizer.py;                                       *)
(*   - DatabaseService.batch_insert_documents and                          *)
(*     RAGController.batch_add_knowledge, the batched ingestion;           *)
(*   - RAGController.ask_question, stream_response and the conversation   *)
(*     history (controllers/rag_controller.py) over LLMService            *)
(*     (services/llm_service.py);                                          *)
(*   - chunk_text and split_into_sentences (utils/text_utils.py);          *)
(*   - EmbeddingService.calculate_similarity;                              *)
(*   - threads on one LLMService (_get_client statement by statement) and  *)
(*     threads on one RAGController (_update_conversation_history          *)
(*     statement by statement).                                            *)
(* The vector store and the embedding model are external: a store call     *)
(* answers with rows, with no rows, or raises.  Similarities and           *)
(* thresholds are counted in tenths (0.3 is 3, 0.5 is 5).                  *)
(***************************************************************************)
EXTENDS Integers, Sequences, FiniteSets, TLC

VARIABLES
    \* ---- one call of search_similar_documents ----
    query_embedding,       \* the caller's query vector
    limit,                 \* the caller's limit
    similarity_threshold,  \* the caller's threshold, in tenths
    sPc,                   \* "primary" | "relaxed" | "fallback" | "done" | "idle"
    sCalls,                \* the store calls made so far, in order
    sReplies,              \* the store's answer to each of them
    sResult,               \* the list returned to the caller (meaningful at "done")
    sRaised,               \* TRUE when an exception left the call
    \* ---- one call of the ingestion path ----
    op,                    \* "embed_batch" | "batch_insert" | "batch_add" | "none"
    texts,                 \* the argument of a direct generate_embeddings_batch call
    documents,             \* the documents handed in
    batch_size,            \* batch_insert_documents' batch_size
    failAt,                \* the store does not acknowledge its failAt-th insert (0: never)
    iPc,                   \* "start" | "loop" | "returned" | "done" | "idle"
    i,                     \* the loop variable of batch_insert_documents
    store,                 \* the rows of the documents table
    inserts,               \* the insert calls made, each a sequence of rows
    embedCalls,            \* the generate_embeddings_batch calls made, each a list of texts
    encodes,               \* the model.encode calls made, each a list of texts
    embedOut,              \* the outcome of the last generate_embeddings_batch call
    embedPrev,             \* the outcome of the direct call before the last one
    ret,                   \* what batch_insert_documents returned (at "returned")
    report,                \* what batch_add_knowledge returned (at "done")
    \* ---- one call of chunk_text ----
    text,                  \* the text, a sequence of characters
    chunk_size,
    overlap,
    preserve_sentences,
    kPc,                   \* "start" | "sentences" | "chars" | "done" | "idle"
    sentences,             \* split_into_sentences(text)
    sIdx,                  \* the number of sentences the loop has taken
    current_chunk,
    chunks,                \* the list chunks, before the final filter
    start,                 \* the window start of the character loop
    kResult,               \* the list chunk_text returned (at "done")
    placed,                \* per sentence taken, the index in chunks of the chunk it went into
    \* ---- the calls made on one RAGController, one after the other ----
    conversation_history,  \* the controller's history
    cPc,                   \* "ready" | "suspended" (a stream_response generator at a yield) | "idle"
    cOp,                   \* the last call: "none" | "ask" | "stream" | "clear"
    question,              \* its question
    use_context,           \* its use_context
    encodeFails,           \* whether model.encode raises for the question
    llm,                   \* the Ollama server: "ok" | "no_connection" | "chat_raises"
    context_docs,          \* what search_similar_documents returned in the call
    cFailed,               \* the call reached the controller's except clause
    cResult,               \* what ask_question returned
    cYields,               \* the fragments the stream_response generator yielded
    cRaised,               \* an exception left the call
    cGenCalls,             \* calls of the LLM service made in the call
    cChats,                \* client.chat invocations made in the call
    exchanges,             \* exchanges completed since construction
    ledger,                \* the exchanges completed since the last clear
    \* ---- one call of calculate_similarity ----
    embedding1,            \* first vector
    embedding2,            \* second vector
    mPc,                   \* "start" | "done" | "idle"
    mOut,                  \* the outcome of the call (at "done")
    \* ---- threads calling one LLMService ----
    client,                \* self.client: NoClient, or the client a thread created
    checked,               \* the clients whose connection check has succeeded
    lPc,                   \* per thread, where it is
    lOp,                   \* per thread: "none" | "generate" | "stream"
    lServer,               \* per thread, the server its generate_response met
    handed,                \* per thread, what _get_client returned to it
    lOut,                  \* per thread, what its call returned or yielded
    \* ---- threads calling one RAGController (they share conversation_history) ----
    rPc,                   \* per thread, where it is
    rOp,                   \* per thread: "none" | "ask" | "stream"
    rResponse,             \* per thread, the response of its call
    rSlice                 \* per thread, the value of conversation_history[-20:] it computed

searchVars == <<query_embedding, limit, similarity_threshold, sPc, sCalls,
                sReplies, sResult, sRaised>>
ingestVars == <<op, texts, documents, batch_size, failAt, iPc, i, store,
                inserts, embedCalls, encodes, embedOut, embedPrev, ret, report>>
chunkVars == <<text, chunk_size, overlap, preserve_sentences, kPc, sentences,
               sIdx, current_chunk, chunks, start, kResult, placed>>
chatVars == <<conversation_history, cPc, cOp, question, use_context,
              encodeFails, llm, context_docs, cFailed, cResult, cYields,
              cRaised, cGenCalls, cChats, exchanges, ledger>>
simVars == <<embedding1, embedding2, mPc, mOut>>
llmVars == <<client, checked, lPc, lOp, lServer, handed, lOut>>
raceVars == <<rPc, rOp, rResponse, rSlice>>
vars == <<searchVars, ingestVars, chunkVars, chatVars,
         simVars,
         llmVars,
         raceVars>>

(***************************************************************************)
(* Bounds of the model.                                                    *)
(***************************************************************************)
MaxLimit == 2
NumRows == 3
MaxThreshold == 6
MaxDocuments == 5
MaxTexts == 4
MaxBatchSize == 2
NumContents == 2
MaxExchanges == 11
MaxTextLen == 5
MaxChunkSize == 3
MaxOverlap == 2
MaxChunks == 7
MaxDim == 2
MaxCoord == 1
NumThreads == 2
MaxPrior == 10

\* The model's stand-in for the default batch_size of batch_insert_documents
\* (50 in the program), scaled to the model's document counts.
DefaultBatchSize == 2

Min(a, b) == IF a < b THEN a ELSE b

\* Sequences over S of length lo..hi.
SeqsBetween(S, lo, hi) == UNION {[1..n -> S] : n \in lo..hi}

\* Sequences without repetition.
IsInjective(s) == \A a, b \in 1..Len(s) : a # b => s[a] # s[b]

(***************************************************************************)
(* The vector store (external).  A row of the documents table has an id,   *)
(* a content and a creation time; a ranked row also has the similarity the *)
(* store computed.                                                         *)
(***************************************************************************)
RowIds == 1..NumRows

TableRow(id) == [id |-> id, content |-> 100 + id, created_at |-> 1000 + id]

RankedRow(id) == [id |-> id, content |-> 100 + id, similarity |-> 10 - id]

\* What the store can answer to rpc('search_documents_cosine', ..., max_results):
\* an error, or at most max_results rows in the store's order.
RankedReplies(max_results) ==
    {[error |-> TRUE, data |-> <<>>]} \cup
    {[error |-> FALSE, data |-> [k \in 1..Len(ids) |-> RankedRow(ids[k])]] :
        ids \in {s \in SeqsBetween(RowIds, 0, max_results) : IsInjective(s)}}

\* What the store can answer to table('documents').select('*').limit(n).
SelectReplies(n) ==
    {[error |-> TRUE, data |-> <<>>]} \cup
    {[error |-> FALSE, data |-> [k \in 1..Len(ids) |-> TableRow(ids[k])]] :
        ids \in {s \in SeqsBetween(RowIds, 0, n) : IsInjective(s)}}

(***************************************************************************)
(* DatabaseService.search_similar_documents                                *)
(***************************************************************************)
\* The literal threshold of the second ranked call.
RelaxedThreshold == 3

\* The similarity _fallback_search gives every row.
PlaceholderSimilarity == 5

\* The parameters of the first ranked call.
PrimaryParams(q, n, t) ==
    [kind |-> "rpc", query_embedding |-> q, similarity_threshold |-> t,
     max_results |-> n]

RelaxedParamsSameThreshold(q, n) ==
    [kind |-> "rpc", query_embedding |-> q,
     similarity_threshold |-> similarity_threshold, max_results |-> n]

\* The parameters of the second ranked call.
RelaxedParams(q, n) ==
    [kind |-> "rpc", query_embedding |-> q,
     similarity_threshold |-> RelaxedThreshold, max_results |-> n]

SelectParams(n) == [kind |-> "select", limit |-> n]

AfterPrimaryAlwaysRetry(reply) ==
    IF reply.error THEN "fallback" ELSE "relaxed"

AfterPrimaryFallbackOnEmpty(reply) ==
    IF reply.error THEN "fallback"
    ELSE IF reply.data # <<>> THEN "done"
    ELSE "fallback"

\* Where the call goes after the first ranked call: its rows are returned,
\* no rows lead to the second ranked call, an exception to the except clause.
AfterPrimary(reply) ==
    IF reply.error THEN "fallback"
    ELSE IF reply.data # <<>> THEN "done"
    ELSE "relaxed"

\* Where the call goes after the second ranked call, which is made inside the
\* same try block: its rows (or []) are returned, an exception reaches the
\* except clause.
AfterRelaxed(reply) == IF reply.error THEN "fallback" ELSE "done"

FallbackRowsReversed(data) ==
    [k \in 1..Len(data) |->
        [id |-> data[Len(data) + 1 - k].id,
         content |-> data[Len(data) + 1 - k].content,
         similarity |-> PlaceholderSimilarity,
         created_at |-> data[Len(data) + 1 - k].created_at]]

\* The documents _fallback_search builds from the selected rows.
FallbackRows(data) ==
    [k \in 1..Len(data) |->
        [id |-> data[k].id,
         content |-> data[k].content,
         similarity |-> PlaceholderSimilarity,
         created_at |-> data[k].created_at]]

FallbackOutcomePropagates(reply) ==
    IF reply.error THEN [raised |-> TRUE, value |-> <<>>]
    ELSE [raised |-> FALSE, value |-> FallbackRows(reply.data)]

\* _fallback_search: the select is inside a try block whose except clause
\* returns [].
FallbackOutcome(reply) ==
    IF reply.error THEN [raised |-> FALSE, value |-> <<>>]
    ELSE IF reply.data # <<>>
         THEN [raised |-> FALSE, value |-> FallbackRows(reply.data)]
         ELSE [raised |-> FALSE, value |-> <<>>]

\* The first ranked call and what follows from its answer.
SearchPrimary ==
    /\ sPc = "primary"
    /\ \E reply \in RankedReplies(limit) :
        /\ sCalls' = Append(sCalls,
               PrimaryParams(query_embedding, limit, similarity_threshold))
        /\ sReplies' = Append(sReplies, reply)
        /\ sPc' = AfterPrimary(reply)
        /\ sResult' = IF AfterPrimary(reply) = "done" THEN reply.data ELSE sResult
    /\ UNCHANGED <<query_embedding, limit, similarity_threshold, sRaised>>
    /\ UNCHANGED <<ingestVars, chunkVars, chatVars, simVars, llmVars,
                   raceVars>>

\* The second ranked call, at the literal threshold.
SearchRelaxed ==
    /\ sPc = "relaxed"
    /\ \E reply \in RankedReplies(limit) :
        /\ sCalls' = Append(sCalls, RelaxedParams(query_embedding, limit))
        /\ sReplies' = Append(sReplies, reply)
        /\ sPc' = AfterRelaxed(reply)
        /\ sResult' = IF AfterRelaxed(reply) = "done" THEN reply.data ELSE sResult
    /\ UNCHANGED <<query_embedding, limit, similarity_threshold, sRaised>>
    /\ UNCHANGED <<ingestVars, chunkVars, chatVars, simVars, llmVars,
                   raceVars>>

\* The except clause: return self._fallback_search(limit).
SearchFallback ==
    /\ sPc = "fallback"
    /\ \E reply \in SelectReplies(limit) :
        /\ sCalls' = Append(sCalls, SelectParams(limit))
        /\ sReplies' = Append(sReplies, reply)
        /\ sRaised' = FallbackOutcome(reply).raised
        /\ sResult' = FallbackOutcome(reply).value
    /\ sPc' = "done"
    /\ UNCHANGED <<query_embedding, limit, similarity_threshold>>
    /\ UNCHANGED <<ingestVars, chunkVars, chatVars, simVars, llmVars,
                   raceVars>>

SearchIdle ==
    /\ query_embedding = <<>>
    /\ limit = 0
    /\ similarity_threshold = 0
    /\ sPc = "idle"
    /\ sCalls = <<>>
    /\ sReplies = <<>>
    /\ sResult = <<>>
    /\ sRaised = FALSE

IngestIdle ==
    /\ op = "none"
    /\ texts = <<>>
    /\ documents = <<>>
    /\ batch_size = 1
    /\ failAt = 0
    /\ iPc = "idle"
    /\ i = 0
    /\ store = <<>>
    /\ inserts = <<>>
    /\ embedCalls = <<>>
    /\ encodes = <<>>
    /\ embedOut = [raised |-> FALSE, value |-> <<>>]
    /\ embedPrev = [raised |-> FALSE, value |-> <<>>]
    /\ ret = FALSE
    /\ report = [success |-> FALSE, count |-> 0]

ChunkIdle ==
    /\ text = <<>>
    /\ chunk_size = 1
    /\ overlap = 0
    /\ preserve_sentences = TRUE
    /\ kPc = "idle"
    /\ sentences = <<>>
    /\ sIdx = 0
    /\ current_chunk = <<>>
    /\ chunks = <<>>
    /\ start = 0
    /\ kResult = <<>>
    /\ placed = <<>>

NoResult ==
    [keys |-> {}, response |-> <<>>, context_used |-> FALSE,
     context_docs |-> <<>>]

ChatIdle ==
    /\ conversation_history = <<>>
    /\ cPc = "idle"
    /\ cOp = "none"
    /\ question = <<>>
    /\ use_context = FALSE
    /\ encodeFails = FALSE
    /\ llm = "ok"
    /\ context_docs = <<>>
    /\ cFailed = FALSE
    /\ cResult = NoResult
    /\ cYields = <<>>
    /\ cRaised = FALSE
    /\ cGenCalls = 0
    /\ cChats = 0
    /\ exchanges = 0
    /\ ledger = <<>>

\* No outcome yet.  A returned score is dot / sqrt(normsq).
NoScore ==
    [raised |-> FALSE, divided |-> FALSE, dot |-> 0, normsq |-> 1]

SimIdle ==
    /\ embedding1 = <<>>
    /\ embedding2 = <<>>
    /\ mPc = "idle"
    /\ mOut = NoScore

Threads == 1..NumThreads

\* self.client = None
NoClient == 0

NoOutput == [raised |-> FALSE, text |-> <<>>]

LlmIdle ==
    /\ client = NoClient
    /\ checked = {}
    /\ lPc = [t \in Threads |-> "off"]
    /\ lOp = [t \in Threads |-> "none"]
    /\ lServer = [t \in Threads |-> "ok"]
    /\ handed = [t \in Threads |-> NoClient]
    /\ lOut = [t \in Threads |-> NoOutput]

RaceIdle ==
    /\ rPc = [t \in Threads |-> "off"]
    /\ rOp = [t \in Threads |-> "none"]
    /\ rResponse = [t \in Threads |-> <<>>]
    /\ rSlice = [t \in Threads |-> <<>>]

SearchInit ==
    /\ query_embedding = <<1, 0>>
    /\ limit \in 1..MaxLimit
    /\ similarity_threshold \in 0..MaxThreshold
    /\ sPc = "primary"
    /\ sCalls = <<>>
    /\ sReplies = <<>>
    /\ sResult = <<>>
    /\ sRaised = FALSE
    /\ IngestIdle
    /\ ChunkIdle
    /\ ChatIdle
    /\ SimIdle
    /\ LlmIdle
    /\ RaceIdle

SearchNext == SearchPrimary \/ SearchRelaxed \/ SearchFallback

SpecSearch == SearchInit /\ [][SearchNext]_vars

(***************************************************************************)
(* EmbeddingService.generate_embeddings_batch                              *)
(***************************************************************************)
\* The vector the embedding model computes for a text (external).
ModelEncode(t) == <<t, 10 - t>>

\* The attributes of the memory_optimizer object: the methods the class
\* MemoryOptimizer defines.
MemoryOptimizerAttrs ==
    {"optimize_gc", "get_memory_stats", "clear_embedding_cache",
     "clear_all_caches"}

\* generate_embeddings_batch(texts).  The model is loaded (the constructor
\* raises otherwise).  The loop over the texts asks
\* memory_optimizer.get_cached_embedding(text) for the first text; the object
\* has no such attribute, the AttributeError is caught by the method's
\* except clause and raised again as RuntimeError.  Only for an empty list
\* does the loop body never run: nothing is uncached, and [] is returned.
\* No text reaches model.encode.  (The last branch is lines 119-149 for a
\* lookup that exists and misses every text; with the attributes the class
\* has, it is never taken.)
generate_embeddings_batch(ts) ==
    IF ts = <<>>
    THEN [raised |-> FALSE, value |-> <<>>, encodes |-> <<>>]
    ELSE IF "get_cached_embedding" \notin MemoryOptimizerAttrs
         THEN [raised |-> TRUE, value |-> <<>>, encodes |-> <<>>]
         ELSE [raised |-> FALSE,
               value |-> [k \in 1..Len(ts) |-> ModelEncode(ts[k])],
               encodes |-> <<ts>>]

\* A direct call of generate_embeddings_batch.
EmbedBatchCall ==
    /\ op = "embed_batch"
    /\ iPc = "start"
    /\ LET out == generate_embeddings_batch(texts)
       IN /\ embedOut' = [raised |-> out.raised, value |-> out.value]
          /\ encodes' = encodes \o out.encodes
    /\ embedCalls' = Append(embedCalls, texts)
    /\ embedPrev' = embedOut
    /\ iPc' = "done"
    /\ UNCHANGED <<op, texts, documents, batch_size, failAt, i, store, inserts,
                   ret, report>>
    /\ UNCHANGED <<searchVars, chunkVars, chatVars, simVars, llmVars,
                   raceVars>>

\* The same call once more, with the same list of texts.
EmbedBatchRepeat ==
    /\ op = "embed_batch"
    /\ iPc = "done"
    /\ Len(embedCalls) = 1
    /\ LET out == generate_embeddings_batch(texts)
       IN /\ embedOut' = [raised |-> out.raised, value |-> out.value]
          /\ encodes' = encodes \o out.encodes
    /\ embedCalls' = Append(embedCalls, texts)
    /\ embedPrev' = embedOut
    /\ iPc' = "repeated"
    /\ UNCHANGED <<op, texts, documents, batch_size, failAt, i, store, inserts,
                   ret, report>>
    /\ UNCHANGED <<searchVars, chunkVars, chatVars, simVars, llmVars,
                   raceVars>>

(***************************************************************************)
(* DatabaseService.batch_insert_documents                                  *)
(***************************************************************************)
\* documents[i:i + batch_size], i counted from 0.
batch_docs(docs, first, size) ==
    SubSeq(docs, first + 1, Min(first + size, Len(docs)))

\* doc.get('metadata', {})
MetadataOf(doc) == IF doc.metadata = "absent" THEN "{}" ELSE doc.metadata

\* The rows handed to the store for one batch.
docs_to_insert(batch, embeddings) ==
    [j \in 1..Len(batch) |->
        [content |-> batch[j].content,
         embedding |-> embeddings[j],
         metadata |-> MetadataOf(batch[j])]]

\* (total_docs + batch_size - 1) // batch_size
num_batches(total_docs, size) == (total_docs + size - 1) \div size

\* One iteration of the loop: embed the batch, build the rows, insert them.
\* An exception of the embedding (or of the insert) is caught by the except
\* clause, which returns False; so does an insert whose response has no data.
BatchStep ==
    /\ iPc = "loop"
    /\ i < Len(documents)
    /\ LET batch == batch_docs(documents, i, batch_size)
           contents == [j \in 1..Len(batch) |-> batch[j].content]
           out == generate_embeddings_batch(contents)
       IN /\ embedCalls' = Append(embedCalls, contents)
          /\ embedOut' = [raised |-> out.raised, value |-> out.value]
          /\ encodes' = encodes \o out.encodes
          /\ IF out.raised
             THEN /\ ret' = FALSE
                  /\ iPc' = "returned"
                  /\ UNCHANGED <<i, store, inserts>>
             ELSE LET rows == docs_to_insert(batch, out.value)
                      acknowledged == failAt # Len(inserts) + 1
                  IN /\ inserts' = Append(inserts, rows)
                     /\ store' = IF acknowledged THEN store \o rows ELSE store
                     /\ IF acknowledged
                        THEN /\ i' = i + batch_size
                             /\ iPc' = "loop"
                             /\ ret' = ret
                        ELSE /\ i' = i
                             /\ iPc' = "returned"
                             /\ ret' = FALSE
    /\ UNCHANGED <<op, texts, documents, batch_size, failAt, report>>
    /\ UNCHANGED <<embedPrev, searchVars, chunkVars, chatVars, simVars,
                   llmVars, raceVars>>

\* The loop is over: return True.
BatchFinish ==
    /\ iPc = "loop"
    /\ i >= Len(documents)
    /\ ret' = TRUE
    /\ iPc' = "returned"
    /\ UNCHANGED <<op, texts, documents, batch_size, failAt, i, store, inserts,
                   embedCalls, encodes, embedOut, report>>
    /\ UNCHANGED <<embedPrev, searchVars, chunkVars, chatVars, simVars,
                   llmVars, raceVars>>

(***************************************************************************)
(* RAGController.batch_add_knowledge                                       *)
(***************************************************************************)
\* if not documents: return True, 0
AddEmpty ==
    /\ op = "batch_add"
    /\ iPc = "start"
    /\ documents = <<>>
    /\ report' = [success |-> TRUE, count |-> 0]
    /\ iPc' = "done"
    /\ UNCHANGED <<op, texts, documents, batch_size, failAt, i, store, inserts,
                   embedCalls, encodes, embedOut, ret>>
    /\ UNCHANGED <<embedPrev, searchVars, chunkVars, chatVars, simVars,
                   llmVars, raceVars>>

\* success = self.database_service.batch_insert_documents(documents)
AddCall ==
    /\ op = "batch_add"
    /\ iPc = "start"
    /\ documents # <<>>
    /\ iPc' = "loop"
    /\ UNCHANGED <<op, texts, documents, batch_size, failAt, i, store, inserts,
                   embedCalls, encodes, embedOut, ret, report>>
    /\ UNCHANGED <<embedPrev, searchVars, chunkVars, chatVars, simVars,
                   llmVars, raceVars>>

\* What batch_add_knowledge returns once batch_insert_documents returned.
add_report(success, docs) ==
    IF success THEN [success |-> TRUE, count |-> Len(docs)]
    ELSE [success |-> FALSE, count |-> 0]

AddReport ==
    /\ op = "batch_add"
    /\ iPc = "returned"
    /\ report' = add_report(ret, documents)
    /\ iPc' = "done"
    /\ UNCHANGED <<op, texts, documents, batch_size, failAt, i, store, inserts,
                   embedCalls, encodes, embedOut, ret>>
    /\ UNCHANGED <<embedPrev, searchVars, chunkVars, chatVars, simVars,
                   llmVars, raceVars>>

Docs == [content : 1..NumContents, metadata : {"absent", "m"}]

IngestInit ==
    /\ op \in {"embed_batch", "batch_insert", "batch_add"}
    /\ texts \in IF op = "embed_batch"
                 THEN SeqsBetween(1..NumContents, 0, MaxTexts) ELSE {<<>>}
    /\ documents \in IF op = "embed_batch"
                     THEN {<<>>} ELSE SeqsBetween(Docs, 0, MaxDocuments)
    /\ batch_size \in IF op = "batch_insert" THEN 1..MaxBatchSize
                      ELSE {DefaultBatchSize}
    /\ failAt \in IF op = "embed_batch" THEN {0}
                  ELSE 0..num_batches(Len(documents), batch_size)
    /\ iPc = IF op = "batch_insert" THEN "loop" ELSE "start"
    /\ i = 0
    /\ store = <<>>
    /\ inserts = <<>>
    /\ embedCalls = <<>>
    /\ encodes = <<>>
    /\ embedOut = [raised |-> FALSE, value |-> <<>>]
    /\ embedPrev = [raised |-> FALSE, value |-> <<>>]
    /\ ret = FALSE
    /\ report = [success |-> FALSE, count |-> 0]
    /\ SearchIdle
    /\ ChunkIdle
    /\ ChatIdle
    /\ SimIdle
    /\ LlmIdle
    /\ RaceIdle

IngestNext ==
    \/ EmbedBatchCall
    \/ EmbedBatchRepeat
    \/ BatchStep
    \/ BatchFinish
    \/ AddEmpty
    \/ AddCall
    \/ AddReport

SpecIngest == IngestInit /\ [][IngestNext]_vars

(***************************************************************************)
(* LLMService (services/llm_service.py).  A text is a sequence of tokens;  *)
(* joining fragments is concatenation.                                     *)
(***************************************************************************)
\* The attributes an LLMService object has.
LLMServiceAttrs ==
    {"model_name", "host", "client", "system_prompt", "_get_system_prompt",
     "_get_client", "generate_response", "_build_messages", "stream_response",
     "get_model_info"}

\* The attributes of the class PerformanceConfig (get_ollama_options is a
\* function of the module, not of the class).
PerformanceConfigAttrs ==
    {"CPU_PHYSICAL_CORES", "OMP_NUM_THREADS", "MKL_NUM_THREADS"}

\* "I apologize, but I encountered an error: ..."
ApologyText == <<"I apologize, but I encountered an error">>

\* "Error: ..." as LLMService.stream_response yields it
StreamErrorText == <<"Error">>

\* What the backend generates: as one text, and as the fragments of a stream.
BackendFragments == << <<"gen">>, <<"er">>, <<"ated">> >>
BackendText == <<"gen", "er", "ated">>

\* "".join(fragments)
Join(fragments) ==
    LET F[k \in 0..Len(fragments)] ==
            IF k = 0 THEN <<>> ELSE F[k - 1] \o fragments[k]
    IN F[Len(fragments)]

generate_response_unguarded(history, server) ==
    IF "_build_prompt" \notin LLMServiceAttrs
    THEN [raised |-> TRUE, text |-> <<>>, chats |-> 0]
    ELSE IF history # <<>> /\ "MAX_CONVERSATION_HISTORY" \notin PerformanceConfigAttrs
    THEN [raised |-> TRUE, text |-> <<>>, chats |-> 0]
    ELSE IF server = "no_connection"
    THEN [raised |-> TRUE, text |-> <<>>, chats |-> 0]
    ELSE IF "get_ollama_options" \notin PerformanceConfigAttrs
    THEN [raised |-> TRUE, text |-> <<>>, chats |-> 0]
    ELSE IF server = "chat_raises"
    THEN [raised |-> TRUE, text |-> <<>>, chats |-> 1]
    ELSE [raised |-> FALSE, text |-> BackendText, chats |-> 1]

\* generate_response: everything is inside one try block whose except
\* clause returns the apology.  The first statement calls self._build_prompt,
\* which LLMService does not define; after it come the history slice by
\* PerformanceConfig.MAX_CONVERSATION_HISTORY, _get_client (ConnectionError
\* when the server cannot be reached), PerformanceConfig.get_ollama_options
\* and client.chat.
generate_response(history, server) ==
    IF "_build_prompt" \notin LLMServiceAttrs
    THEN [raised |-> FALSE, text |-> ApologyText, chats |-> 0]
    ELSE IF history # <<>> /\ "MAX_CONVERSATION_HISTORY" \notin PerformanceConfigAttrs
    THEN [raised |-> FALSE, text |-> ApologyText, chats |-> 0]
    ELSE IF server = "no_connection"
    THEN [raised |-> FALSE, text |-> ApologyText, chats |-> 0]
    ELSE IF "get_ollama_options" \notin PerformanceConfigAttrs
    THEN [raised |-> FALSE, text |-> ApologyText, chats |-> 0]
    ELSE IF server = "chat_raises"
    THEN [raised |-> FALSE, text |-> ApologyText, chats |-> 1]
    ELSE [raised |-> FALSE, text |-> BackendText, chats |-> 1]

\* LLMService.stream_response, run to exhaustion: _build_messages, then
\* _get_client, then client.chat(..., options=
\* PerformanceConfig.get_ollama_options(streaming=True)), whose argument is
\* evaluated before the call; the except clause yields "Error: ...".
llm_stream_response(server) ==
    IF server = "no_connection"
    THEN [fragments |-> <<StreamErrorText>>, chats |-> 0]
    ELSE IF "get_ollama_options" \notin PerformanceConfigAttrs
    THEN [fragments |-> <<StreamErrorText>>, chats |-> 0]
    ELSE IF server = "chat_raises"
    THEN [fragments |-> <<StreamErrorText>>, chats |-> 1]
    ELSE [fragments |-> BackendFragments, chats |-> 1]

(***************************************************************************)
(* RAGController (controllers/rag_controller.py)                           *)
(***************************************************************************)
\* The length _update_conversation_history cuts the history to.
HistoryCap == 20

\* "I encountered an error: ..."
ControllerErrorText == <<"I encountered an error">>

UpdateKeepOldest(history, q, response) ==
    LET all == history \o <<[role |-> "user", content |-> q],
                            [role |-> "assistant", content |-> response]>>
    IN IF Len(all) > HistoryCap THEN SubSeq(all, 1, HistoryCap) ELSE all

UpdateAssistantFirst(history, q, response) ==
    LET all == history \o <<[role |-> "assistant", content |-> response],
                            [role |-> "user", content |-> q]>>
    IN IF Len(all) > HistoryCap
       THEN SubSeq(all, Len(all) - HistoryCap + 1, Len(all))
       ELSE all

\* _update_conversation_history
update_conversation_history(history, q, response) ==
    LET all == history \o <<[role |-> "user", content |-> q],
                            [role |-> "assistant", content |-> response]>>
    IN IF Len(all) > HistoryCap
       THEN SubSeq(all, Len(all) - HistoryCap + 1, Len(all))
       ELSE all

\* What search_similar_documents can hand back to the controller (it never
\* raises): no document, or documents.
ContextChoices == {<<>>, <<RankedRow(1)>>}

\* The inputs of one call: the retrieval inputs matter only with use_context,
\* the server only when the LLM service is reached.
CallInputs ==
    {c \in [use_context : BOOLEAN, encodeFails : BOOLEAN,
            found : ContextChoices,
            server : {"ok", "no_connection", "chat_raises"}] :
        /\ ~c.use_context => (~c.encodeFails /\ c.found = <<>>)
        /\ c.encodeFails => (c.found = <<>> /\ c.server = "ok")}

\* The question of the next exchange.
NextQuestion == <<ToString(exchanges + 1)>>

\* ask_question, as a whole.
AskQuestion ==
    /\ cPc = "ready"
    /\ exchanges < MaxExchanges
    /\ \E c \in CallInputs :
        /\ use_context' = c.use_context
        /\ encodeFails' = c.encodeFails
        /\ llm' = c.server
        /\ IF c.use_context /\ c.encodeFails
           THEN \* generate_embedding raises: the except clause
                /\ cFailed' = TRUE
                /\ context_docs' = <<>>
                /\ cResult' = [keys |-> {"response", "error"},
                               response |-> ControllerErrorText,
                               context_used |-> FALSE, context_docs |-> <<>>]
                /\ cGenCalls' = 0
                /\ cChats' = 0
                /\ UNCHANGED <<conversation_history, exchanges, ledger>>
           ELSE LET g == generate_response(conversation_history, c.server)
                IN /\ cFailed' = FALSE
                   /\ context_docs' = c.found
                   /\ cGenCalls' = 1
                   /\ cChats' = g.chats
                   /\ conversation_history' =
                          update_conversation_history(conversation_history,
                                                      NextQuestion, g.text)
                   /\ cResult' = [keys |-> {"response", "context_used",
                                            "context_docs"},
                                  response |-> g.text,
                                  context_used |-> Len(c.found) > 0,
                                  context_docs |-> c.found]
                   /\ exchanges' = exchanges + 1
                   /\ ledger' = Append(ledger, <<NextQuestion, g.text>>)
    /\ cOp' = "ask"
    /\ question' = NextQuestion
    /\ cYields' = <<>>
    /\ cRaised' = FALSE
    /\ cPc' = "ready"
    /\ UNCHANGED <<searchVars, ingestVars, chunkVars, simVars, llmVars,
                   raceVars>>

\* stream_response from the first next() to its first yield.
StreamStart ==
    /\ cPc = "ready"
    /\ exchanges < MaxExchanges
    /\ \E c \in CallInputs :
        /\ use_context' = c.use_context
        /\ encodeFails' = c.encodeFails
        /\ llm' = c.server
        /\ IF c.use_context /\ c.encodeFails
           THEN /\ cFailed' = TRUE
                /\ context_docs' = <<>>
                /\ cYields' = <<ControllerErrorText>>
                /\ cGenCalls' = 0
                /\ cChats' = 0
                /\ UNCHANGED <<conversation_history, exchanges, ledger>>
           ELSE LET g == llm_stream_response(c.server)
                    full_response == Join(g.fragments)
                IN /\ cFailed' = FALSE
                   /\ context_docs' = c.found
                   /\ cGenCalls' = 1
                   /\ cChats' = g.chats
                   /\ conversation_history' =
                          update_conversation_history(conversation_history,
                                                      NextQuestion, full_response)
                   /\ cYields' = <<full_response>>
                   /\ exchanges' = exchanges + 1
                   /\ ledger' = Append(ledger, <<NextQuestion, full_response>>)
    /\ cOp' = "stream"
    /\ question' = NextQuestion
    /\ cResult' = NoResult
    /\ cRaised' = FALSE
    /\ cPc' = "suspended"
    /\ UNCHANGED <<searchVars, ingestVars, chunkVars, simVars, llmVars,
                   raceVars>>

\* What the generator does when resumed after its yield: after the yield of
\* the try block it ends; after the yield of the except clause it evaluates
\* `yield error_message`, a name that is not defined: NameError.
resume_raises(failed) == failed

\* stream_response resumed by the next next().
StreamResume ==
    /\ cPc = "suspended"
    /\ cRaised' = resume_raises(cFailed)
    /\ cPc' = "ready"
    /\ UNCHANGED <<conversation_history, cOp, question, use_context,
                   encodeFails, llm, context_docs, cFailed, cResult, cYields,
                   cGenCalls, cChats, exchanges, ledger>>
    /\ UNCHANGED <<searchVars, ingestVars, chunkVars, simVars, llmVars,
                   raceVars>>

\* clear_conversation_history
ClearHistory ==
    /\ cPc = "ready"
    /\ cOp # "clear"
    /\ conversation_history' = <<>>
    /\ ledger' = <<>>
    /\ cOp' = "clear"
    /\ question' = <<>>
    /\ use_context' = FALSE
    /\ encodeFails' = FALSE
    /\ llm' = "ok"
    /\ context_docs' = <<>>
    /\ cFailed' = FALSE
    /\ cResult' = NoResult
    /\ cYields' = <<>>
    /\ cRaised' = FALSE
    /\ cGenCalls' = 0
    /\ cChats' = 0
    /\ UNCHANGED <<cPc, exchanges>>
    /\ UNCHANGED <<searchVars, ingestVars, chunkVars, simVars, llmVars,
                   raceVars>>

ChatInit ==
    /\ conversation_history = <<>>
    /\ cPc = "ready"
    /\ cOp = "none"
    /\ question = <<>>
    /\ use_context = FALSE
    /\ encodeFails = FALSE
    /\ llm = "ok"
    /\ context_docs = <<>>
    /\ cFailed = FALSE
    /\ cResult = NoResult
    /\ cYields = <<>>
    /\ cRaised = FALSE
    /\ cGenCalls = 0
    /\ cChats = 0
    /\ exchanges = 0
    /\ ledger = <<>>
    /\ SearchIdle
    /\ IngestIdle
    /\ ChunkIdle
    /\ SimIdle
    /\ LlmIdle
    /\ RaceIdle

ChatNext == AskQuestion \/ StreamStart \/ StreamResume \/ ClearHistory

SpecChat == ChatInit /\ [][ChatNext]_vars

(***************************************************************************)
(* chunk_text and split_into_sentences (utils/text_utils.py).  A string is *)
(* a sequence of characters.                                               *)
(***************************************************************************)
\* The characters of the model: a lower-case letter, an upper-case letter,
\* a sentence terminator and a whitespace character.
Alphabet == {"a", "A", ".", " "}

\* \s
WhitespaceChars == {" ", "\n", "\t"}

\* [.!?]
Terminators == {".", "!", "?"}

\* \w, [A-Z] and [a-z] on the alphabet
IsWord(c) == c \in {"a", "A"}
IsUpper(c) == c = "A"
IsLower(c) == c = "a"

SetMin(S) == CHOOSE x \in S : \A y \in S : x <= y
SetMax(S) == CHOOSE x \in S : \A y \in S : x >= y

\* str.strip()
Strip(s) ==
    LET keep == {k \in 1..Len(s) : s[k] \notin WhitespaceChars}
    IN IF keep = {} THEN <<>> ELSE SubSeq(s, SetMin(keep), SetMax(keep))

\* An index of a slice, as Python clamps it.
SliceIndex(k, n) ==
    IF k < 0 THEN (IF k + n < 0 THEN 0 ELSE k + n)
    ELSE IF k > n THEN n ELSE k

\* s[a:b]
PySlice(s, a, b) ==
    SubSeq(s, SliceIndex(a, Len(s)) + 1, SliceIndex(b, Len(s)))

\* s[-k:] for k > 0
PyTail(s, k) == PySlice(s, 0 - k, Len(s))

\* The positions the pattern
\*     (?<!\w\.\w.)(?<![A-Z][a-z]\.)(?<=[.!?])\s
\* matches: a whitespace character after a terminator, unless the four
\* characters before it are word, period, word, any (but a newline), or the
\* three before it are upper-case, lower-case, period.
SplitPoints(t) ==
    {p \in 2..Len(t) :
        /\ t[p] \in WhitespaceChars
        /\ t[p - 1] \in Terminators
        /\ ~(/\ p > 4
             /\ IsWord(t[p - 4])
             /\ t[p - 3] = "."
             /\ IsWord(t[p - 2])
             /\ t[p - 1] # "\n")
        /\ ~(/\ p > 3
             /\ IsUpper(t[p - 3])
             /\ IsLower(t[p - 2])
             /\ t[p - 1] = ".")}

\* re.split: the pieces between the matches, from position `from` on.
RECURSIVE SplitFrom(_, _)
SplitFrom(t, from) ==
    LET ps == {p \in SplitPoints(t) : p >= from}
    IN IF ps = {}
       THEN <<SubSeq(t, from, Len(t))>>
       ELSE <<SubSeq(t, from, SetMin(ps) - 1)>> \o SplitFrom(t, SetMin(ps) + 1)

\* [f(x) for x in s]
StripEach(s) == [k \in 1..Len(s) |-> Strip(s[k])]

NonEmpty(s) == s # <<>>

\* split_into_sentences
split_into_sentences(t) == SelectSeq(StripEach(SplitFrom(t, 1)), NonEmpty)

early_return_stripped(t) == IF t = <<>> THEN <<>> ELSE <<Strip(t)>>

\* chunk_text, lines 70-71: whether it returns at once, and what
returns_early(t, size) == t = <<>> \/ Len(t) <= size
early_return(t) == IF t = <<>> THEN <<>> ELSE <<t>>

\* The test that closes the running chunk before a sentence.
closes_chunk(current, sentence, size) ==
    Len(current) + Len(sentence) > size /\ current # <<>>

seed_chunk_carries_more(current, sentence, ov) ==
    IF ov > 0 /\ Len(current) > ov
    THEN PyTail(current, ov + 1) \o <<" ">> \o sentence
    ELSE sentence

\* The running chunk that starts after a closed one.
seed_chunk(current, sentence, ov) ==
    IF ov > 0 /\ Len(current) > ov
    THEN PyTail(current, ov) \o <<" ">> \o sentence
    ELSE sentence

extend_chunk_restarts(current, sentence) == sentence

\* current_chunk += " " + sentence if current_chunk else sentence
extend_chunk(current, sentence) ==
    IF current # <<>> THEN current \o <<" ">> \o sentence ELSE sentence

NotWhitespaceOnly(c) == Strip(c) # <<>>

\* [chunk for chunk in chunks if chunk.strip()]
drop_blank(cs) == SelectSeq(cs, NotWhitespaceOnly)

\* chunk_text up to the loop it takes.
ChunkStart ==
    /\ kPc = "start"
    /\ IF returns_early(text, chunk_size)
       THEN /\ kResult' = early_return(text)
            /\ kPc' = "done"
            /\ UNCHANGED <<sentences, sIdx>>
       ELSE /\ kPc' = IF preserve_sentences THEN "sentences" ELSE "chars"
            /\ sentences' = IF preserve_sentences
                            THEN split_into_sentences(text) ELSE <<>>
            /\ sIdx' = IF preserve_sentences THEN 1 ELSE 0
            /\ UNCHANGED kResult
    /\ UNCHANGED <<text, chunk_size, overlap, preserve_sentences,
                   current_chunk, chunks, start, placed>>
    /\ UNCHANGED <<searchVars, ingestVars, chatVars, simVars, llmVars,
                   raceVars>>

\* One round of `for sentence in sentences`.
ChunkSentence ==
    /\ kPc = "sentences"
    /\ sIdx <= Len(sentences)
    /\ LET sentence == sentences[sIdx]
       IN IF closes_chunk(current_chunk, sentence, chunk_size)
          THEN /\ chunks' = Append(chunks, Strip(current_chunk))
               /\ current_chunk' = seed_chunk(current_chunk, sentence, overlap)
          ELSE /\ current_chunk' = extend_chunk(current_chunk, sentence)
               /\ UNCHANGED chunks
    /\ sIdx' = sIdx + 1
    /\ placed' = Append(placed, Len(chunks') + 1)
    /\ UNCHANGED <<text, chunk_size, overlap, preserve_sentences, kPc,
                   sentences, start, kResult>>
    /\ UNCHANGED <<searchVars, ingestVars, chatVars, simVars, llmVars,
                   raceVars>>

\* After the sentence loop: the last chunk, the filter and the return.
ChunkSentencesEnd ==
    /\ kPc = "sentences"
    /\ sIdx > Len(sentences)
    /\ chunks' = IF current_chunk # <<>>
                 THEN Append(chunks, Strip(current_chunk)) ELSE chunks
    /\ kResult' = drop_blank(chunks')
    /\ kPc' = "done"
    /\ UNCHANGED <<text, chunk_size, overlap, preserve_sentences, sentences,
                   sIdx, current_chunk, start, placed>>
    /\ UNCHANGED <<searchVars, ingestVars, chatVars, simVars, llmVars,
                   raceVars>>

next_start_ignores_overlap(from, size, ov) == from + size

\* start = end - overlap if overlap > 0 else end, with end = start + chunk_size
next_start(from, size, ov) ==
    IF ov > 0 THEN from + size - ov ELSE from + size

\* One round of `while start < len(text)`.  A round that does not advance
\* start leaves the loop test true, so the code goes round for ever; the
\* model follows MaxChunks such rounds.  Rounds that advance start are never
\* cut short.
ChunkCharStep ==
    /\ kPc = "chars"
    /\ start < Len(text)
    /\ \/ next_start(start, chunk_size, overlap) > start
       \/ Len(chunks) < MaxChunks
    /\ chunks' = Append(chunks, PySlice(text, start, start + chunk_size))
    /\ start' = next_start(start, chunk_size, overlap)
    /\ UNCHANGED <<text, chunk_size, overlap, preserve_sentences, kPc,
                   sentences, sIdx, current_chunk, kResult, placed>>
    /\ UNCHANGED <<searchVars, ingestVars, chatVars, simVars, llmVars,
                   raceVars>>

\* After the character loop: the filter and the return.
ChunkCharEnd ==
    /\ kPc = "chars"
    /\ start >= Len(text)
    /\ kResult' = drop_blank(chunks)
    /\ kPc' = "done"
    /\ UNCHANGED <<text, chunk_size, overlap, preserve_sentences, sentences,
                   sIdx, current_chunk, chunks, start, placed>>
    /\ UNCHANGED <<searchVars, ingestVars, chatVars, simVars, llmVars,
                   raceVars>>

ChunkInit ==
    /\ text \in SeqsBetween(Alphabet, 0, MaxTextLen)
    /\ chunk_size \in 1..MaxChunkSize
    /\ overlap \in 0..MaxOverlap
    /\ preserve_sentences \in BOOLEAN
    /\ kPc = "start"
    /\ sentences = <<>>
    /\ sIdx = 0
    /\ current_chunk = <<>>
    /\ chunks = <<>>
    /\ start = 0
    /\ kResult = <<>>
    /\ placed = <<>>
    /\ SearchIdle
    /\ IngestIdle
    /\ ChatIdle
    /\ SimIdle
    /\ LlmIdle
    /\ RaceIdle

ChunkNext ==
    \/ ChunkStart
    \/ ChunkSentence
    \/ ChunkSentencesEnd
    \/ ChunkCharStep
    \/ ChunkCharEnd

SpecChunk == ChunkInit /\ [][ChunkNext]_vars

\* A call of chunk_text that has started keeps running: it is one thread of
\* straight-line code and loops.
SpecChunkFair == ChunkInit /\ [][ChunkNext]_vars /\ WF_vars(ChunkNext)

(***************************************************************************)
(* EmbeddingService.calculate_similarity.  Coordinates are integers; a     *)
(* score is kept exactly, as the pair (dot, normsq) that stands for        *)
(* dot / sqrt(normsq), so that no rounding enters the comparisons.         *)
(***************************************************************************)
\* sum of v[k] * w[k]
SumProducts(v, w) ==
    LET S[k \in 0..Len(v)] == IF k = 0 THEN 0 ELSE S[k - 1] + v[k] * w[k]
    IN S[Len(v)]

\* np.dot on two one-dimensional arrays: ValueError when the sizes differ.
np_dot(v, w) ==
    IF Len(v) # Len(w)
    THEN [raised |-> TRUE, value |-> 0]
    ELSE [raised |-> FALSE, value |-> SumProducts(v, w)]

\* np.linalg.norm(v), squared
norm_squared(v) == SumProducts(v, v)

calculate_similarity_checks_first_only(v, w) ==
    IF np_dot(v, w).raised
    THEN [raised |-> TRUE, divided |-> FALSE, dot |-> 0, normsq |-> 1]
    ELSE IF norm_squared(v) = 0
    THEN [raised |-> FALSE, divided |-> FALSE, dot |-> 0, normsq |-> 1]
    ELSE [raised |-> FALSE, divided |-> TRUE, dot |-> np_dot(v, w).value,
          normsq |-> norm_squared(v) * norm_squared(w)]

\* calculate_similarity: the dot product first (its ValueError becomes the
\* RuntimeError of the except clause), then the norms, 0.0 when one of them
\* is 0, else dot_product / (norm1 * norm2).
calculate_similarity(v, w) ==
    IF np_dot(v, w).raised
    THEN [raised |-> TRUE, divided |-> FALSE, dot |-> 0, normsq |-> 1]
    ELSE IF norm_squared(v) = 0 \/ norm_squared(w) = 0
    THEN [raised |-> FALSE, divided |-> FALSE, dot |-> 0, normsq |-> 1]
    ELSE [raised |-> FALSE, divided |-> TRUE, dot |-> np_dot(v, w).value,
          normsq |-> norm_squared(v) * norm_squared(w)]

CalculateSimilarity ==
    /\ mPc = "start"
    /\ mOut' = calculate_similarity(embedding1, embedding2)
    /\ mPc' = "done"
    /\ UNCHANGED <<embedding1, embedding2>>
    /\ UNCHANGED <<searchVars, ingestVars, chunkVars, chatVars, llmVars,
                   raceVars>>

Vectors == SeqsBetween((0 - MaxCoord)..MaxCoord, 0, MaxDim)

SimInit ==
    /\ embedding1 \in Vectors
    /\ embedding2 \in Vectors
    /\ mPc = "start"
    /\ mOut = NoScore
    /\ SearchIdle
    /\ IngestIdle
    /\ ChunkIdle
    /\ ChatIdle
    /\ LlmIdle
    /\ RaceIdle

SimNext == CalculateSimilarity

SpecSim == SimInit /\ [][SimNext]_vars

(***************************************************************************)
(* Threads on one LLMService: generate_response as a whole, and            *)
(* stream_response with _get_client statement by statement.  A client is   *)
(* named by the thread that created it.                                    *)
(***************************************************************************)
HistoryChoices == {<<>>, <<[role |-> "user", content |-> <<"1">>]>>}

\* A thread calls generate_response.
LlmGenerate(t) ==
    /\ lPc[t] = "idle"
    /\ \E history \in HistoryChoices,
          server \in {"ok", "no_connection", "chat_raises"} :
        LET g == generate_response(history, server)
        IN /\ lOut' = [lOut EXCEPT ![t] = [raised |-> g.raised, text |-> g.text]]
           /\ lServer' = [lServer EXCEPT ![t] = server]
    /\ lOp' = [lOp EXCEPT ![t] = "generate"]
    /\ lPc' = [lPc EXCEPT ![t] = "done"]
    /\ UNCHANGED <<client, checked, handed>>
    /\ UNCHANGED <<searchVars, ingestVars, chunkVars, chatVars, simVars,
                   raceVars>>

\* A thread starts iterating stream_response: _build_messages, then the
\* call of _get_client.
LlmStreamStart(t) ==
    /\ lPc[t] = "idle"
    /\ lOp' = [lOp EXCEPT ![t] = "stream"]
    /\ lPc' = [lPc EXCEPT ![t] = "test"]
    /\ UNCHANGED <<client, checked, lServer, handed, lOut>>
    /\ UNCHANGED <<searchVars, ingestVars, chunkVars, chatVars, simVars,
                   raceVars>>

\* _get_client: if self.client is None
GetClientTest(t) ==
    /\ lPc[t] = "test"
    /\ lPc' = [lPc EXCEPT ![t] = IF client = NoClient THEN "create" ELSE "return"]
    /\ UNCHANGED <<client, checked, lOp, lServer, handed, lOut>>
    /\ UNCHANGED <<searchVars, ingestVars, chunkVars, chatVars, simVars,
                   raceVars>>

\* _get_client: self.client = ollama.Client(host=self.host)
GetClientCreate(t) ==
    /\ lPc[t] = "create"
    /\ client' = t
    /\ lPc' = [lPc EXCEPT ![t] = "check"]
    /\ UNCHANGED <<checked, lOp, lServer, handed, lOut>>
    /\ UNCHANGED <<searchVars, ingestVars, chunkVars, chatVars, simVars,
                   raceVars>>

\* _get_client: the two calls self.client.list(), on whatever self.client
\* is now; None has no list (AttributeError), and either call can fail.
GetClientCheck(t) ==
    /\ lPc[t] = "check"
    /\ IF client = NoClient
       THEN /\ lPc' = [lPc EXCEPT ![t] = "reset"]
            /\ UNCHANGED checked
       ELSE \E outcome \in {"ok", "first_fails", "second_fails"} :
               /\ checked' = IF outcome = "first_fails"
                             THEN checked ELSE checked \cup {client}
               /\ lPc' = [lPc EXCEPT ![t] =
                             IF outcome = "ok" THEN "return" ELSE "reset"]
    /\ UNCHANGED <<client, lOp, lServer, handed, lOut>>
    /\ UNCHANGED <<searchVars, ingestVars, chunkVars, chatVars, simVars,
                   raceVars>>

\* _get_client: the except clause, self.client = None and ConnectionError
GetClientReset(t) ==
    /\ lPc[t] = "reset"
    /\ client' = NoClient
    /\ lPc' = [lPc EXCEPT ![t] = "except"]
    /\ UNCHANGED <<checked, lOp, lServer, handed, lOut>>
    /\ UNCHANGED <<searchVars, ingestVars, chunkVars, chatVars, simVars,
                   raceVars>>

\* _get_client: return self.client
GetClientReturn(t) ==
    /\ lPc[t] = "return"
    /\ handed' = [handed EXCEPT ![t] = client]
    /\ lPc' = [lPc EXCEPT ![t] = "options"]
    /\ UNCHANGED <<client, checked, lOp, lServer, lOut>>
    /\ UNCHANGED <<searchVars, ingestVars, chunkVars, chatVars, simVars,
                   raceVars>>

\* "Error: Could not connect to the LLM service."
NoConnectionText == <<"Error: Could not connect to the LLM service.">>

\* stream_response after _get_client returned: `if not client`, then the
\* arguments of client.chat, PerformanceConfig.get_ollama_options among
\* them, then the stream.
LlmStreamChat(t) ==
    /\ lPc[t] = "options"
    /\ lOut' = [lOut EXCEPT ![t] =
                   [raised |-> FALSE,
                    text |-> IF handed[t] = NoClient
                             THEN NoConnectionText
                             ELSE IF "get_ollama_options" \notin PerformanceConfigAttrs
                             THEN StreamErrorText
                             ELSE Join(BackendFragments)]]
    /\ lPc' = [lPc EXCEPT ![t] = "done"]
    /\ UNCHANGED <<client, checked, lOp, lServer, handed>>
    /\ UNCHANGED <<searchVars, ingestVars, chunkVars, chatVars, simVars,
                   raceVars>>

\* stream_response: the except clause after _get_client raised.
LlmStreamExcept(t) ==
    /\ lPc[t] = "except"
    /\ lOut' = [lOut EXCEPT ![t] = [raised |-> FALSE, text |-> StreamErrorText]]
    /\ lPc' = [lPc EXCEPT ![t] = "done"]
    /\ UNCHANGED <<client, checked, lOp, lServer, handed>>
    /\ UNCHANGED <<searchVars, ingestVars, chunkVars, chatVars, simVars,
                   raceVars>>

LlmInit ==
    /\ client = NoClient
    /\ checked = {}
    /\ lPc = [t \in Threads |-> "idle"]
    /\ lOp = [t \in Threads |-> "none"]
    /\ lServer = [t \in Threads |-> "ok"]
    /\ handed = [t \in Threads |-> NoClient]
    /\ lOut = [t \in Threads |-> NoOutput]
    /\ SearchIdle
    /\ IngestIdle
    /\ ChunkIdle
    /\ ChatIdle
    /\ SimIdle
    /\ RaceIdle

LlmNext ==
    \E t \in Threads :
        \/ LlmGenerate(t)
        \/ LlmStreamStart(t)
        \/ GetClientTest(t)
        \/ GetClientCreate(t)
        \/ GetClientCheck(t)
        \/ GetClientReset(t)
        \/ GetClientReturn(t)
        \/ LlmStreamChat(t)
        \/ LlmStreamExcept(t)

SpecLlm == LlmInit /\ [][LlmNext]_vars

(***************************************************************************)
(* Threads on one RAGController: the requests of routes/chat_routes.py get *)
(* the one controller of api.py and nothing serializes them.  Each thread  *)
(* makes one call; _update_conversation_history runs statement by          *)
(* statement on the shared conversation_history.                           *)
(***************************************************************************)
\* The variables of a controller call that these threads do not use.
chatRest == <<cPc, cOp, question, use_context, encodeFails, llm, context_docs,
              cFailed, cResult, cYields, cRaised, cGenCalls, cChats,
              exchanges, ledger>>

\* The question of thread t, and the questions of the exchanges made before.
ThreadQuestion(t) == <<"q", ToString(t)>>
PriorQuestion(k) == <<"p", ToString(k)>>

\* The history after n earlier ask_question calls made one after the other.
RECURSIVE PriorHistory(_)
PriorHistory(n) ==
    IF n = 0 THEN <<>>
    ELSE update_conversation_history(
             PriorHistory(n - 1), PriorQuestion(n),
             generate_response(PriorHistory(n - 1), "ok").text)

\* A thread calls ask_question or stream_response and gets as far as the
\* call of _update_conversation_history, or fails before it.
RaceCall(t) ==
    /\ rPc[t] = "idle"
    /\ \E o \in {"ask", "stream"}, fails \in BOOLEAN :
        /\ rOp' = [rOp EXCEPT ![t] = o]
        /\ rResponse' = [rResponse EXCEPT ![t] =
              IF fails THEN ControllerErrorText
              ELSE IF o = "ask"
              THEN generate_response(conversation_history, "ok").text
              ELSE Join(llm_stream_response("ok").fragments)]
        /\ rPc' = [rPc EXCEPT ![t] = IF fails THEN "done" ELSE "append_user"]
    /\ UNCHANGED <<conversation_history, rSlice>>
    /\ UNCHANGED chatRest
    /\ UNCHANGED <<searchVars, ingestVars, chunkVars, simVars, llmVars>>

\* self.conversation_history.append({"role": "user", "content": question})
RaceAppendUser(t) ==
    /\ rPc[t] = "append_user"
    /\ conversation_history' =
           Append(conversation_history,
                  [role |-> "user", content |-> ThreadQuestion(t)])
    /\ rPc' = [rPc EXCEPT ![t] = "append_assistant"]
    /\ UNCHANGED <<rOp, rResponse, rSlice>>
    /\ UNCHANGED chatRest
    /\ UNCHANGED <<searchVars, ingestVars, chunkVars, simVars, llmVars>>

\* self.conversation_history.append({"role": "assistant", "content": response})
RaceAppendAssistant(t) ==
    /\ rPc[t] = "append_assistant"
    /\ conversation_history' =
           Append(conversation_history,
                  [role |-> "assistant", content |-> rResponse[t]])
    /\ rPc' = [rPc EXCEPT ![t] = "check"]
    /\ UNCHANGED <<rOp, rResponse, rSlice>>
    /\ UNCHANGED chatRest
    /\ UNCHANGED <<searchVars, ingestVars, chunkVars, simVars, llmVars>>

\* if len(self.conversation_history) > 20
RaceCheck(t) ==
    /\ rPc[t] = "check"
    /\ rPc' = [rPc EXCEPT ![t] =
                  IF Len(conversation_history) > HistoryCap
                  THEN "slice" ELSE "done"]
    /\ UNCHANGED <<conversation_history, rOp, rResponse, rSlice>>
    /\ UNCHANGED chatRest
    /\ UNCHANGED <<searchVars, ingestVars, chunkVars, simVars, llmVars>>

\* self.conversation_history[-20:], evaluated
RaceSlice(t) ==
    /\ rPc[t] = "slice"
    /\ rSlice' = [rSlice EXCEPT ![t] =
                     PyTail(conversation_history, HistoryCap)]
    /\ rPc' = [rPc EXCEPT ![t] = "assign"]
    /\ UNCHANGED <<conversation_history, rOp, rResponse>>
    /\ UNCHANGED chatRest
    /\ UNCHANGED <<searchVars, ingestVars, chunkVars, simVars, llmVars>>

\* self.conversation_history = <the slice>
RaceAssign(t) ==
    /\ rPc[t] = "assign"
    /\ conversation_history' = rSlice[t]
    /\ rPc' = [rPc EXCEPT ![t] = "done"]
    /\ UNCHANGED <<rOp, rResponse, rSlice>>
    /\ UNCHANGED chatRest
    /\ UNCHANGED <<searchVars, ingestVars, chunkVars, simVars, llmVars>>

RaceInit ==
    /\ \E n \in 0..MaxPrior : conversation_history = PriorHistory(n)
    /\ rPc = [t \in Threads |-> "idle"]
    /\ rOp = [t \in Threads |-> "none"]
    /\ rResponse = [t \in Threads |-> <<>>]
    /\ rSlice = [t \in Threads |-> <<>>]
    /\ cPc = "idle"
    /\ cOp = "none"
    /\ question = <<>>
    /\ use_context = FALSE
    /\ encodeFails = FALSE
    /\ llm = "ok"
    /\ context_docs = <<>>
    /\ cFailed = FALSE
    /\ cResult = NoResult
    /\ cYields = <<>>
    /\ cRaised = FALSE
    /\ cGenCalls = 0
    /\ cChats = 0
    /\ exchanges = 0
    /\ ledger = <<>>
    /\ SearchIdle
    /\ IngestIdle
    /\ ChunkIdle
    /\ SimIdle
    /\ LlmIdle

RaceNext ==
    \E t \in Threads :
        \/ RaceCall(t)
        \/ RaceAppendUser(t)
        \/ RaceAppendAssistant(t)
        \/ RaceCheck(t)
        \/ RaceSlice(t)
        \/ RaceAssign(t)

SpecRace == RaceInit /\ [][RaceNext]_vars

(***************************************************************************)
(* Properties of search_similar_documents.                                 *)
(***************************************************************************)
LastCall == sCalls[Len(sCalls)]
LastReply == sReplies[Len(sReplies)]

PrimaryReturnedNothing ==
    /\ Len(sReplies) >= 1
    /\ ~sReplies[1].error
    /\ sReplies[1].data = <<>>

RankedCalls == {k \in 1..Len(sCalls) : sCalls[k].kind = "rpc"}
SelectCalls == {k \in 1..Len(sCalls) : sCalls[k].kind = "select"}

\* C1: no exception ever leaves search_similar_documents, whatever the
\* primary ranked call, the relaxed ranked call and the unranked select do;
\* the call ends with a list, and with the empty list when the unranked
\* select was reached and raised.
C1_NeverRaises ==
    /\ sRaised = FALSE
    /\ (sPc = "done" /\ LastCall.kind = "select" /\ LastReply.error)
          => sResult = <<>>

\* C1 witness: the ranked call raised, the unranked select raised too, and
\* the call returned [].
C1_Witness ==
    /\ sPc = "done"
    /\ Len(sCalls) = 2
    /\ sReplies[1].error
    /\ LastCall.kind = "select"
    /\ LastReply.error
    /\ sResult = <<>>
    /\ ~sRaised

\* C2 as stated: an unranked select happens only after the primary ranked
\* call raised; once the primary call returned no rows, the call ends with
\* the relaxed retry (its rows or []) and never selects.
C2_SelectOnlyAfterPrimaryRaised ==
    /\ SelectCalls # {} => sReplies[1].error
    /\ (PrimaryReturnedNothing /\ sPc = "done")
          => (Len(sCalls) = 2 /\ sResult = sReplies[2].data)

\* C2 as amended: an unranked select happens only directly after a ranked
\* call (the primary one or the relaxed retry) that raised; once the primary
\* call returned no rows and the relaxed retry returned without raising, the
\* call has ended with the retry's rows (or []) and no select.
C2_SelectOnlyAfterRankedRaised ==
    /\ \A k \in SelectCalls :
          k > 1 /\ sCalls[k - 1].kind = "rpc" /\ sReplies[k - 1].error
    /\ (PrimaryReturnedNothing /\ Len(sReplies) >= 2 /\ ~sReplies[2].error)
          => (sPc = "done" /\ Len(sCalls) = 2 /\ sResult = sReplies[2].data)

\* C2 witness: the primary call returned no rows, the relaxed retry returned
\* rows, and the call ended with them and without a select.
C2_Witness ==
    /\ PrimaryReturnedNothing
    /\ sPc = "done"
    /\ Len(sCalls) = 2
    /\ ~sReplies[2].error
    /\ sReplies[2].data # <<>>
    /\ sResult = sReplies[2].data
    /\ SelectCalls = {}

\* C3 as stated: the threshold of the relaxed retry is strictly lower than
\* the threshold of the primary attempt.
C3_RelaxedStrictlyLower ==
    \A k \in RankedCalls :
        k > 1 => sCalls[k].similarity_threshold < sCalls[1].similarity_threshold

\* C4 as stated: after a primary call that returned no rows there is exactly
\* one more ranked call, with the same vector and limit at threshold 0.3, and
\* the call returns that call's rows ([] when it has none).
C4_RelaxedRowsReturned ==
    (PrimaryReturnedNothing /\ sPc = "done")
        => /\ RankedCalls = {1, 2}
           /\ sCalls[2] = [kind |-> "rpc", query_embedding |-> query_embedding,
                           similarity_threshold |-> 3, max_results |-> limit]
           /\ sResult = sReplies[2].data

\* C4 as amended: after a primary call that returned no rows there is exactly
\* one more ranked call, with the same vector and limit at threshold 0.3;
\* when that call returns without raising, the call makes no other store call
\* and returns its rows ([] when it has none).
C4_RelaxedRetryOnce ==
    (PrimaryReturnedNothing /\ sPc = "done")
        => /\ RankedCalls = {1, 2}
           /\ sCalls[2] = [kind |-> "rpc", query_embedding |-> query_embedding,
                           similarity_threshold |-> 3, max_results |-> limit]
           /\ ~sReplies[2].error
                 => (Len(sCalls) = 2 /\ sResult = sReplies[2].data)

\* C4 witness: the retry at 0.3 returned rows after an empty primary answer.
C4_Witness ==
    /\ PrimaryReturnedNothing
    /\ sPc = "done"
    /\ Len(sCalls) = 2
    /\ sCalls[2].similarity_threshold = 3
    /\ Len(sReplies[2].data) = limit
    /\ sResult = sReplies[2].data

\* C5: when the primary ranked call raises, there is one unranked select of
\* at most `limit` rows, and the result has one entry per selected row, in
\* the same order, with the row's id and content and similarity 0.5.
C5_FallbackPlaceholder ==
    (sPc = "done" /\ sReplies[1].error)
        => /\ Len(sCalls) = 2
           /\ sCalls[2] = [kind |-> "select", limit |-> limit]
           /\ Len(sReplies[2].data) <= limit
           /\ Len(sResult) = Len(sReplies[2].data)
           /\ \A k \in 1..Len(sResult) :
                 /\ sResult[k].id = sReplies[2].data[k].id
                 /\ sResult[k].content = sReplies[2].data[k].content
                 /\ sResult[k].similarity = 5

\* C5 witness: the primary call raised and the select returned two rows.
C5_Witness ==
    /\ sPc = "done"
    /\ sReplies[1].error
    /\ Len(sCalls) = 2
    /\ ~sReplies[2].error
    /\ Len(sReplies[2].data) = 2
    /\ Len(sResult) = 2

\* C6: when the primary ranked call returns at least one row, the call has
\* ended with exactly those rows, in the store's order, and the primary call
\* is the only store call.
C6_PrimaryRowsTerminal ==
    (Len(sReplies) >= 1 /\ ~sReplies[1].error /\ sReplies[1].data # <<>>)
        => /\ sPc = "done"
           /\ Len(sCalls) = 1
           /\ sCalls[1] = [kind |-> "rpc", query_embedding |-> query_embedding,
                           similarity_threshold |-> similarity_threshold,
                           max_results |-> limit]
           /\ sResult = sReplies[1].data

\* C6 witness: the primary call returned two rows and the call ended.
C6_Witness ==
    /\ sPc = "done"
    /\ Len(sCalls) = 1
    /\ ~sReplies[1].error
    /\ Len(sReplies[1].data) = 2
    /\ sResult = sReplies[1].data

(***************************************************************************)
(* Properties of the ingestion path.                                       *)
(***************************************************************************)
\* The rows of the first n documents, with the model's embedding of each.
RowsOfFirst(n) ==
    [j \in 1..n |->
        [content |-> documents[j].content,
         embedding |-> ModelEncode(documents[j].content),
         metadata |-> MetadataOf(documents[j])]]

Concat(ss) ==
    LET F[k \in 0..Len(ss)] == IF k = 0 THEN <<>> ELSE F[k - 1] \o ss[k]
    IN F[Len(ss)]

\* C7 as stated: when the store is set not to acknowledge the k-th insert of
\* a batch_insert_documents call that has at least k batches, the call
\* returns False, the store holds exactly the documents of batches 1..k-1
\* (the first (k-1)*b), and no batch after k is embedded or inserted.
C7_EarlierBatchesStayCommitted ==
    (op = "batch_insert" /\ iPc = "returned" /\ failAt >= 1)
        => /\ ret = FALSE
           /\ store = RowsOfFirst((failAt - 1) * batch_size)
           /\ Len(inserts) <= failAt
           /\ Len(embedCalls) <= failAt

\* C8 as stated: over n >= 1 documents, with every insert acknowledged,
\* batch_insert_documents returns True after exactly ceil(n/b) inserts in
\* document order, each of at most b rows, the row of document j carrying
\* its content, the embedding of that content and its metadata.
C8_AllBatchesInserted ==
    (op = "batch_insert" /\ iPc = "returned" /\ Len(documents) >= 1 /\ failAt = 0)
        => /\ ret = TRUE
           /\ Len(inserts) = num_batches(Len(documents), batch_size)
           /\ \A k \in 1..Len(inserts) : Len(inserts[k]) <= batch_size
           /\ Concat(inserts) = RowsOfFirst(Len(documents))

C10_SameLengthAndOrder ==
    (op = "embed_batch" /\ iPc = "done")
        => /\ ~embedOut.raised
           /\ Len(embedOut.value) = Len(texts)
           /\ \A k \in 1..Len(texts) : embedOut.value[k] = ModelEncode(texts[k])

\* C11 as stated: two calls of generate_embeddings_batch in succession with
\* the same list return the same vectors, one per text, and the second call
\* does not call the embedding model.
C11_RepeatedCallSameVectors ==
    (op = "embed_batch" /\ iPc = "repeated")
        => /\ ~embedPrev.raised
           /\ ~embedOut.raised
           /\ Len(embedPrev.value) = Len(texts)
           /\ embedOut.value = embedPrev.value
           /\ Len(encodes) <= 1


(***************************************************************************)
(* Properties of RAGController.                                            *)
(***************************************************************************)
\* C12 as stated: a failing ask_question or stream_response never raises;
\* ask_question returns a mapping with 'response' and 'error', and the
\* stream_response generator, iterated to exhaustion, yields an error
\* message and then finishes normally.
C12_FailureNeverRaises ==
    /\ ~cRaised
    /\ (cOp = "ask" /\ cFailed) => cResult.keys = {"response", "error"}
    /\ (cOp = "stream" /\ cFailed /\ cPc = "ready")
           => cYields = <<ControllerErrorText>>

\* C13 as stated: when embedding, search and the generation backend all
\* succeed, ask_question returns the backend's text as response, the search
\* result as context_docs, and context_used true exactly when that result is
\* non-empty.
C13_SuccessReturnsBackendText ==
    (cOp = "ask" /\ ~encodeFails /\ llm = "ok")
        => /\ cResult.response = BackendText
           /\ cResult.context_docs = context_docs
           /\ cResult.context_used = (context_docs # <<>>)

\* C14 as stated: every ask_question with use_context true calls the
\* generation exactly once, also when embedding or search fails.
C14_GenerationOncePerAsk ==
    (cOp = "ask" /\ use_context) => cGenCalls = 1

\* The history made of the given exchanges, in order.
HistoryOf(exs) ==
    [k \in 1..(2 * Len(exs)) |->
        IF k % 2 = 1
        THEN [role |-> "user", content |-> exs[(k + 1) \div 2][1]]
        ELSE [role |-> "assistant", content |-> exs[k \div 2][2]]]

\* C15: conversation_history never holds more than 20 entries, and once more
\* than 10 exchanges have completed since the last clear it holds exactly the
\* 10 most recent exchanges, in order.
C15_HistoryKeepsLastTen ==
    /\ Len(conversation_history) <= 20
    /\ Len(ledger) > 10
           => conversation_history =
                  HistoryOf(SubSeq(ledger, Len(ledger) - 9, Len(ledger)))

\* More than 10 exchanges completed since the last clear, the last one just
\* now.
C15_Witness ==
    /\ Len(ledger) > 10
    /\ cOp \in {"ask", "stream"}
    /\ ~cFailed
    /\ Len(conversation_history) = 20


(***************************************************************************)
(* Properties of chunk_text.                                               *)
(***************************************************************************)
\* s occurs in c as a contiguous run of characters.
Contains(c, s) ==
    \E j \in 0..(Len(c) - Len(s)) : SubSeq(c, j + 1, j + Len(s)) = s

\* c ends with s.
EndsWith(c, s) ==
    Len(s) <= Len(c) /\ SubSeq(c, Len(c) - Len(s) + 1, Len(c)) = s

\* The sentences longer than chunk_size.
LongSentences == {n \in 1..Len(sentences) : Len(sentences[n]) > chunk_size}

\* chunk_text has returned from its sentence loop.
SentenceModeDone ==
    /\ kPc = "done"
    /\ preserve_sentences
    /\ ~returns_early(text, chunk_size)

\* C16 as stated: whatever the text, chunk_size, overlap and
\* preserve_sentences, no element of chunk_text's result is empty or
\* whitespace-only.
C16_NoBlankChunk ==
    (kPc = "done")
        => \A k \in 1..Len(kResult) :
               \E j \in 1..Len(kResult[k]) : kResult[k][j] \notin WhitespaceChars

\* C17 as stated: with preserve_sentences, every returned chunk is at most
\* chunk_size long unless it contains a sentence that is by itself longer
\* than chunk_size.
C17_ChunkWithinSize ==
    (kPc = "done" /\ preserve_sentences)
        => \A k \in 1..Len(kResult) :
               \/ Len(kResult[k]) <= chunk_size
               \/ \E n \in LongSentences : Contains(kResult[k], sentences[n])

\* C18: with preserve_sentences and a text longer than chunk_size, every
\* sentence of the splitter is whole and contiguous inside the returned chunk
\* it was put into, and these chunks follow the order of the sentences: none
\* is dropped, split or reordered.
C18_SentencesWholeInOrder ==
    SentenceModeDone
        => /\ sentences = split_into_sentences(text)
           /\ Len(placed) = Len(sentences)
           /\ \A n \in 1..Len(sentences) :
                  /\ placed[n] \in 1..Len(kResult)
                  /\ Contains(kResult[placed[n]], sentences[n])
           /\ \A n, m \in 1..Len(sentences) : n < m => placed[n] <= placed[m]

\* Three sentences over at least two chunks, with characters carried over.
C18_Witness ==
    /\ SentenceModeDone
    /\ Len(sentences) >= 3
    /\ Len(kResult) >= 2
    /\ overlap > 0
    /\ \E n \in 1..Len(sentences) : placed[n] > 1

\* C19 as stated: with preserve_sentences, the chunk that holds a sentence
\* longer than chunk_size is that sentence and nothing else: no other
\* sentence, no characters carried over from the chunk before.
C19_LongSentenceAlone ==
    SentenceModeDone
        => \A n \in LongSentences :
               /\ placed[n] \in 1..Len(kResult)
               /\ kResult[placed[n]] = sentences[n]

\* What a chunk holds before the sentence it ends with.
Before(c, s) == SubSeq(c, 1, Len(c) - Len(s))

\* C19 amended: the chunk that holds a sentence longer than chunk_size ends
\* with that sentence and no other sentence is put into it.  Before the
\* sentence it holds nothing when overlap is 0 or the sentence is the first;
\* otherwise it holds nothing, or at most `overlap` characters from the end
\* of the chunk before and a space.  A text that is one sentence longer than
\* chunk_size gives exactly one chunk, that sentence.
C19_LongSentenceEndsOwnChunk ==
    SentenceModeDone
        => /\ \A n \in LongSentences :
                  /\ placed[n] \in 1..Len(kResult)
                  /\ \A m \in 1..Len(sentences) :
                         m # n => placed[m] # placed[n]
                  /\ EndsWith(kResult[placed[n]], sentences[n])
                  /\ LET pre == Before(kResult[placed[n]], sentences[n])
                     IN \/ pre = <<>>
                        \/ /\ overlap > 0
                           /\ n > 1
                           /\ placed[n] > 1
                           /\ Len(pre) <= overlap + 1
                           /\ pre[Len(pre)] = " "
                           /\ EndsWith(kResult[placed[n] - 1],
                                       SubSeq(pre, 1, Len(pre) - 1))
           /\ (sentences = <<text>> /\ Len(text) > chunk_size)
                  => kResult = <<text>>

\* A long sentence whose chunk starts with carried characters.
C19_Witness ==
    /\ SentenceModeDone
    /\ \E n \in LongSentences :
           /\ placed[n] \in 2..Len(kResult)
           /\ Len(kResult[placed[n]]) > Len(sentences[n])

\* C20: chunk_text returns the empty list for the empty text and [text] for
\* a non-empty text no longer than chunk_size, whatever preserve_sentences
\* and overlap are.
C20_SmallInputReturnedWhole ==
    (kPc = "done")
        => /\ text = <<>> => kResult = <<>>
           /\ (text # <<>> /\ Len(text) <= chunk_size) => kResult = <<text>>

\* A non-empty text no longer than chunk_size was returned, leading
\* whitespace included.
C20_Witness ==
    /\ kPc = "done"
    /\ text # <<>>
    /\ Len(text) <= chunk_size
    /\ text[1] = " "
    /\ overlap > 0
    /\ kResult = <<text>>


\* The number of windows: the k >= 0 with k * (chunk_size - overlap) < len(text).
WindowCount ==
    (Len(text) + (chunk_size - overlap) - 1) \div (chunk_size - overlap)

\* text[k*(chunk_size-overlap) : k*(chunk_size-overlap)+chunk_size]
Window(k) ==
    LET lo == k * (chunk_size - overlap)
        hi == IF lo + chunk_size > Len(text) THEN Len(text) ELSE lo + chunk_size
    IN [j \in 1..(hi - lo) |-> text[lo + j]]

HasVisibleChar(c) == \E j \in 1..Len(c) : c[j] # " "

\* C21: with preserve_sentences false, 0 <= overlap < chunk_size and a text
\* longer than chunk_size, the windows chunk_text cuts are
\* text[k*(chunk_size-overlap) : k*(chunk_size-overlap)+chunk_size] for every
\* k >= 0 with k*(chunk_size-overlap) < len(text), and the result is these
\* windows in order without the whitespace-only ones.
C21_CharWindows ==
    (kPc = "done" /\ ~preserve_sentences /\ overlap < chunk_size
        /\ Len(text) > chunk_size)
        => /\ chunks = [k \in 1..WindowCount |-> Window(k - 1)]
           /\ kResult = SelectSeq([k \in 1..WindowCount |-> Window(k - 1)],
                                  HasVisibleChar)

\* Three windows or more with an overlap, a whitespace-only one among them.
C21_Witness ==
    /\ kPc = "done"
    /\ ~preserve_sentences
    /\ overlap > 0
    /\ overlap < chunk_size
    /\ Len(text) > chunk_size
    /\ Len(chunks) >= 3
    /\ Len(kResult) < Len(chunks)
    /\ Len(kResult) >= 1


(***************************************************************************)
(* Properties of calculate_similarity.                                     *)
(***************************************************************************)
\* C22 as stated: for two vectors of equal length calculate_similarity
\* returns a score within [0,1], never a negative value.
C22_ScoreInUnitInterval ==
    (mPc = "done" /\ Len(embedding1) = Len(embedding2))
        => /\ ~mOut.raised
           /\ mOut.dot >= 0
           /\ mOut.dot * mOut.dot <= mOut.normsq

ZeroNorm(v) == \A k \in 1..Len(v) : v[k] = 0

\* C23 as stated: whenever one of the two vectors has zero norm,
\* calculate_similarity returns exactly 0.0, without raising and without
\* dividing.
C23_ZeroNormGivesZero ==
    (mPc = "done" /\ (ZeroNorm(embedding1) \/ ZeroNorm(embedding2)))
        => /\ ~mOut.raised
           /\ ~mOut.divided
           /\ mOut.dot = 0

\* C23 amended: for two vectors of equal length of which one has zero norm,
\* calculate_similarity returns exactly 0.0, without raising and without
\* dividing.
C23_ZeroNormEqualLengthGivesZero ==
    (mPc = "done" /\ Len(embedding1) = Len(embedding2)
        /\ (ZeroNorm(embedding1) \/ ZeroNorm(embedding2)))
        => /\ ~mOut.raised
           /\ ~mOut.divided
           /\ mOut.dot = 0

\* similarity([0,0],[1,1]) and the like: the second vector alone is zero.
C23_Witness ==
    /\ mPc = "done"
    /\ Len(embedding1) = Len(embedding2)
    /\ Len(embedding1) >= 2
    /\ ~ZeroNorm(embedding1)
    /\ ZeroNorm(embedding2)
    /\ mOut.dot = 0
    /\ ~mOut.divided


\* C24 as stated: chunk_text terminates for every text, every
\* chunk_size >= 1 and every overlap >= 0, overlap >= chunk_size included,
\* in the sentence mode and in the character mode.
C24_Terminates == <>(kPc = "done")


\* C25 as stated: with preserve_sentences and overlap > 0, every returned
\* chunk after the first begins with the last `overlap` characters of the
\* chunk returned just before it, whenever that chunk is longer than
\* `overlap`.
C25_ChunkBeginsWithOverlap ==
    (kPc = "done" /\ preserve_sentences /\ overlap > 0)
        => \A k \in 2..Len(kResult) :
               Len(kResult[k - 1]) > overlap
                   => /\ Len(kResult[k]) >= overlap
                      /\ SubSeq(kResult[k], 1, overlap) =
                             SubSeq(kResult[k - 1],
                                    Len(kResult[k - 1]) - overlap + 1,
                                    Len(kResult[k - 1]))


\* The two entries of an exchange: the question, then the response.
Exchange(q, response) ==
    <<[role |-> "user", content |-> q],
      [role |-> "assistant", content |-> response]>>

\* The last n entries of h.
LastEntries(h, n) ==
    IF Len(h) > n THEN SubSeq(h, Len(h) - n + 1, Len(h)) ELSE h

\* C26 as stated: an ask_question call that returns an error result leaves
\* conversation_history unchanged, and a call that returns a normal result
\* appends exactly one user entry holding the question followed by one
\* assistant entry holding the returned response.
C26_AskAppendsOneExchange ==
    [][cOp' = "ask"
         => IF "error" \in cResult'.keys
            THEN conversation_history' = conversation_history
            ELSE conversation_history' =
                     conversation_history \o Exchange(question', cResult'.response)]_vars

\* C26 amended: an ask_question call that returns an error result leaves
\* conversation_history unchanged; a call that returns a normal result
\* appends one user entry holding the question followed by one assistant
\* entry holding the returned response, and then only the 20 most recent
\* entries are kept.
C26_AskAppendsThenKeepsTwenty ==
    [][cOp' = "ask"
         => IF "error" \in cResult'.keys
            THEN conversation_history' = conversation_history
            ELSE conversation_history' =
                     LastEntries(conversation_history
                                     \o Exchange(question', cResult'.response), 20)]_vars

\* ask_question has returned a normal result on a history that was full:
\* the oldest exchange is gone and the new one is at the end.
C26_Witness ==
    /\ cOp = "ask"
    /\ "context_used" \in cResult.keys
    /\ Len(ledger) > 10
    /\ Len(conversation_history) = 20
    /\ conversation_history[19] = [role |-> "user", content |-> question]
    /\ conversation_history[20] =
           [role |-> "assistant", content |-> cResult.response]
    /\ conversation_history[1].content # ledger[1][1]


\* C27 as stated: on success stream_response yields exactly one fragment,
\* the concatenation in order of all fragments of the backend's stream, and
\* conversation_history holds that exchange already when the fragment is
\* yielded.
C27_StreamYieldsWholeAnswer ==
    (cOp = "stream" /\ cPc = "suspended" /\ ~encodeFails /\ llm = "ok")
        => /\ cYields = <<Join(BackendFragments)>>
           /\ Len(conversation_history) >= 2
           /\ SubSeq(conversation_history, Len(conversation_history) - 1,
                     Len(conversation_history))
                  = Exchange(question, Join(BackendFragments))


(***************************************************************************)
(* Properties of LLMService.                                               *)
(***************************************************************************)
\* C28: generate_response never raises; a failure while building the
\* request, obtaining the client or calling the backend comes back as the
\* apology string.
C28_GenerateNeverRaises ==
    \A t \in Threads :
        (lOp[t] = "generate" /\ lPc[t] = "done")
            => /\ ~lOut[t].raised
               /\ lOut[t].text \in {ApologyText, BackendText}
               /\ lServer[t] # "ok" => lOut[t].text = ApologyText

\* generate_response has returned the apology where the server could not be
\* reached, and where the backend call would have failed.
C28_Witness ==
    \E t, u \in Threads :
        /\ t # u
        /\ lOp[t] = "generate" /\ lPc[t] = "done"
        /\ lOp[u] = "generate" /\ lPc[u] = "done"
        /\ lServer[t] = "no_connection"
        /\ lServer[u] = "chat_raises"
        /\ lOut[t] = [raised |-> FALSE, text |-> ApologyText]
        /\ lOut[u] = [raised |-> FALSE, text |-> ApologyText]

\* C30 as stated: however concurrent calls of _get_client on an
\* uninitialized service interleave, no caller is handed a client before
\* that client's connection check has completed successfully.
C30_HandedOnlyCheckedClient ==
    \A t \in Threads : handed[t] # NoClient => handed[t] \in checked


(***************************************************************************)
(* Properties of concurrent calls on one RAGController.                    *)
(***************************************************************************)
\* The response that belongs to a question.
AnswerTo(q) ==
    IF \E t \in Threads : q = ThreadQuestion(t)
    THEN rResponse[CHOOSE t \in Threads : q = ThreadQuestion(t)]
    ELSE ApologyText

\* C29 as stated: however two concurrent ask_question / stream_response
\* calls on one controller interleave, once both have finished
\* conversation_history alternates user, assistant, starting with user, and
\* each assistant entry is the answer to the user entry just before it.
C29_HistoryAlternates ==
    (\A t \in Threads : rPc[t] = "done")
        => /\ Len(conversation_history) % 2 = 0
           /\ \A k \in 1..Len(conversation_history) :
                  IF k % 2 = 1
                  THEN conversation_history[k].role = "user"
                  ELSE /\ conversation_history[k].role = "assistant"
                       /\ conversation_history[k - 1].role = "user"
                       /\ conversation_history[k].content =
                              AnswerTo(conversation_history[k - 1].content)

====
